---------------------------- MODULE Spec2Model ----------------------------
(***************************************************************************)
(* A model of lutris/scanners/lutris.py: the MissingGames tracker (one     *)
(* control context calling update_missing / update_all_missing, worker     *)
(* threads running _fetch) and the game path cache it reads.               *)
(*                                                                         *)
(* Python threads interleave between bytecodes, so every read or write of  *)
(* an attribute shared between the control context and a worker is a step  *)
(* of its own; statements that touch only a thread's locals are merged     *)
(* into the neighbouring step.                                             *)
(***************************************************************************)
EXTENDS Naturals, Sequences, FiniteSets, TLC

(***************************************************************************)
(* Values                                                                  *)
(***************************************************************************)
\* A Python str key "n" and a Python int key n are different dict keys.
Str(n) == <<"str", n>>
Int(n) == <<"int", n>>

\* Ids handed to update_missing (Iterable[str]).
GameIds == {Str(1), Str(2)}
\* The value of a local that holds no id.
NoId == Str(0)

\* None / "" as the result of dict.get or get_path_from_config: only its
\* truthiness is ever used.
NoPath == ""
\* The paths whose existence on disk the tracker asks for.
Paths == {"pa"}
\* A value of the cache file that is valid JSON and truthy, but no path (a
\* non-empty list, say): os.path.exists raises TypeError on it.
NotAPath == "[0]"
ExistsRaises(path) == path = NotAPath

\* Worker thread slots (AsyncCall starts one thread per call).
MaxWorkers == 2
\* How many requests the control context makes, and how many times the disk
\* changes, in one run.
MaxRequests == 3
MaxFsChanges == 1
\* How many calls of path cache functions are started when these are taken
\* one step at a time.
MaxCalls == 3
\* How many times scan_directory is called, and how many entries the
\* catalog answers with.
MaxScans == 2
MaxCatalog == 2
WorkerIds == 1..MaxWorkers

(***************************************************************************)
(* Python dicts as insertion-ordered sequences of <<key, value>> pairs     *)
(***************************************************************************)
DictKeys(d) == {d[i][1] : i \in 1..Len(d)}

DictGet(d, k) ==
    IF k \in DictKeys(d)
    THEN d[CHOOSE i \in 1..Len(d) : d[i][1] = k][2]
    ELSE NoPath

\* list(d): the keys in insertion order.
DictKeyList(d) == [i \in 1..Len(d) |-> d[i][1]]

VARIABLES
    \* MissingGames fields (lines 219-224)
    missing_game_ids,   \* self.missing_game_ids
    check_game_ids,     \* self._check_game_ids: "None" or "set" (a reference)
    set_obj,            \* contents of the set object last made by set()
    check_game_queue,   \* self._check_game_queue
    check_all_games,    \* self._check_all_games
    changed,            \* self._changed
    \* the control context, inside update_all_missing / update_missing
    c_pc, c_game_ids, c_start_fetch, c_ref,
    \* the worker threads, inside _fetch
    w_pc, w_game_id, w_path, w_final,
    \* the environment
    cache_file,         \* GAME_PATH_CACHE_PATH
    memo,               \* the value cache_single keeps for get_path_cache
    fs,                 \* the paths that exist on disk
    observer_raises,    \* whether a registered observer raises when fired
    \* bookkeeping of what the threads did (not program state)
    uncaught,           \* an exception left _fetch
    c_raised,           \* an exception left update_missing
    \* the history of the run, kept to state the properties
    n_requests,         \* requests made so far
    n_fs_changes,       \* changes of the disk so far
    owed,               \* ids passed to update_missing and not looked up since
    scan_owed,          \* ids loaded by a full rescan and not looked up since
    dirty,              \* missing_game_ids changed since the last fire
    pass_state,         \* "none", "run": a pass started from idle, or "done"
    pass_rescan,        \* the pass was started by update_all_missing
    pass_ids,           \* the ids of the request that started the pass
    pass_missing,       \* missing_game_ids when the pass started
    pass_arrivals,      \* another request was made during the pass
    pass_fs,            \* the disk changed since the pass started
    pass_fires,         \* fires of 'updated' during the pass
    pass_failed,        \* a worker raised inside the try block since then
    last,               \* the last call of a path cache function, and what
                        \* the file and the memo were before it
    \* the path cache functions taken one step at a time
    p_pc,               \* where the control context is inside build_path_cache,
                        \* add_to_path_cache or remove_from_path_cache
    p_cache,            \* its local game_paths / current_cache
    g_pc,               \* where a second thread is inside get_path_cache or
                        \* read_path_cache
    g_value,            \* the dict that thread has loaded
    g_result,           \* what its last call returned
    n_calls,            \* path cache calls started so far
    \* scan_directory and what it works on
    root_dir,           \* dirname: its folders and the files below them
    api_games,          \* what get_api_games and get_game_installers answer
    deps_missing,       \* the game slugs whose install raises
                        \* MissingGameDependencyError
    used_directories,   \* the directories of the games in the library
    scan_out,           \* what the last scan_directory did and returned
    install_log,        \* the folders install_game was called for, all scans
    n_scans,            \* scans made so far
    \* get_path_from_config and what it works on
    game,               \* the game whose path is derived
    path_out            \* what the call of get_path_from_config gave

trackerVars == <<missing_game_ids, check_game_ids, set_obj, check_game_queue,
                 check_all_games, changed>>
ctlVars == <<c_pc, c_game_ids, c_start_fetch, c_ref>>
workerVars == <<w_pc, w_game_id, w_path, w_final>>
envVars == <<cache_file, memo, fs, observer_raises>>
obsVars == <<uncaught, c_raised>>
histVars == <<n_requests, n_fs_changes, owed, scan_owed, dirty, pass_state,
              pass_rescan, pass_ids, pass_missing, pass_arrivals, pass_fs,
              pass_fires, pass_failed, last>>
raceVars == <<p_pc, p_cache, g_pc, g_value, g_result, n_calls>>
scanVars == <<root_dir, api_games, deps_missing, used_directories, scan_out,
              install_log, n_scans>>
pathVars == <<game, path_out>>
extVars == <<raceVars, scanVars, pathVars>>
vars == <<trackerVars, ctlVars, workerVars, envVars, obsVars, histVars, extVars>>

(***************************************************************************)
(* The path cache file and its reader                                      *)
(***************************************************************************)
\* json.dump writes every key as a string: 1 and "1" both become "1".
JsonKey(k) == Str(k[2])

\* json.dump(d): the members of the object, in the dict's order.
JsonDump(d) == [i \in 1..Len(d) |-> <<JsonKey(d[i][1]), d[i][2]>>]

\* d[k] = v: a present key keeps its place and takes the value, a new key
\* goes last.
DictSet(d, k, v) ==
    IF k \in DictKeys(d)
    THEN [i \in 1..Len(d) |-> IF d[i][1] = k THEN <<k, v>> ELSE d[i]]
    ELSE Append(d, <<k, v>>)

\* json.load of an object: members are stored left to right, so the last
\* value of a repeated member name wins.
RECURSIVE JsonLoadFrom(_, _)
JsonLoadFrom(pairs, d) ==
    IF pairs = <<>> THEN d
    ELSE JsonLoadFrom(Tail(pairs), DictSet(d, Head(pairs)[1], Head(pairs)[2]))
JsonLoad(pairs) == JsonLoadFrom(pairs, <<>>)

AbsentFile == [kind |-> "absent", pairs |-> <<>>]
CorruptFile == [kind |-> "corrupt", pairs |-> <<>>]
JsonFile(d) == [kind |-> "json", pairs |-> JsonDump(d)]

\* read_path_cache(): open() is outside the try, so a missing file raises;
\* a JSONDecodeError gives {}.
read_path_cache(file) ==
    IF file.kind = "absent" THEN [raised |-> TRUE, value |-> <<>>]
    ELSE IF file.kind = "corrupt" THEN [raised |-> FALSE, value |-> <<>>]
    ELSE [raised |-> FALSE, value |-> JsonLoad(file.pairs)]

\* get_path_cache(): cache_single keeps the first value returned; memo is
\* <<>> before that and <<dict>> after.
get_path_cache ==
    IF memo # <<>> THEN [raised |-> FALSE, value |-> memo[1]]
    ELSE read_path_cache(cache_file)
MemoAfterGet ==
    IF memo = <<>> /\ ~get_path_cache.raised THEN <<get_path_cache.value>>
    ELSE memo

(***************************************************************************)
(* The path cache: rebuild, point updates, reads                           *)
(***************************************************************************)
\* del d[k]
DictDel(d, k) == SelectSeq(d, LAMBDA e : e[1] # k)

\* The rows get_games(filters={'installed': 1}) returns, each with the path
\* get_path_from_config gives for its game: the database ids are integers.
InstalledGames ==
    << [id |-> Int(1), runner_name |-> "linux", path |-> "pa"],
       [id |-> Int(2), runner_name |-> "steam", path |-> "pb"],
       [id |-> Int(3), runner_name |-> "wine", path |-> NoPath] >>

\* get_game_paths(), lines 143-154.
RECURSIVE get_game_paths_from(_, _)
get_game_paths_from(rows, game_paths) ==
    IF rows = <<>> THEN game_paths
    ELSE LET db_game == Head(rows)
         IN  IF db_game.runner_name \in {"steam", "web"} \/ db_game.path = NoPath
             THEN get_game_paths_from(Tail(rows), game_paths)
             ELSE get_game_paths_from(Tail(rows),
                                      DictSet(game_paths, db_game.id, db_game.path))
get_game_paths == get_game_paths_from(InstalledGames, <<>>)

\* What a call leaves in `last`.
NoCall == [op |-> "none", id |-> NoId, path |-> NoPath, recreate |-> FALSE,
           raised |-> FALSE, result |-> <<>>, pre_file |-> AbsentFile,
           pre_memo |-> <<>>]
Call(op, id, path, recreate, raised, result) ==
    [op |-> op, id |-> id, path |-> path, recreate |-> recreate,
     raised |-> raised, result |-> result, pre_file |-> cache_file,
     pre_memo |-> memo]

\* A build_path_cache that skips only when the file can be parsed, not
\* whenever it exists.
BuildSkipped_IfReadable(file, recreate) == file.kind = "json" /\ ~recreate

\* What a thread's read of the file returned, whether the control context
\* was inside a path cache function at the time, and inside which call.
NoResult == [op |-> "none", raised |-> FALSE, value |-> <<>>,
             writing |-> FALSE, call |-> NoCall]
Result(op, r) == [op |-> op, raised |-> r.raised, value |-> r.value,
                  writing |-> p_pc # "idle", call |-> last]

\* Line 159: the file is there and no rebuild is forced.
BuildSkipped(file, recreate) == file.kind # "absent" /\ ~recreate

\* build_path_cache(recreate), lines 157-167.
build_path_cache(recreate) ==
    /\ IF BuildSkipped(cache_file, recreate)
       THEN UNCHANGED <<cache_file, memo>>
       ELSE /\ cache_file' = JsonFile(get_game_paths)
            /\ memo' = <<>>
    /\ last' = Call("build", NoId, NoPath, recreate, FALSE, <<>>)

\* add_to_path_cache(game), lines 170-181: id is game.id, path what
\* get_path_from_config(game) returns.
add_to_path_cache(id, path) ==
    /\ IF path = NoPath
       THEN /\ UNCHANGED <<cache_file, memo>>
            /\ last' = Call("add", id, path, FALSE, FALSE, <<>>)
       ELSE IF read_path_cache(cache_file).raised
       THEN /\ UNCHANGED <<cache_file, memo>>
            /\ last' = Call("add", id, path, FALSE, TRUE, <<>>)
       ELSE /\ cache_file' = JsonFile(DictSet(read_path_cache(cache_file).value, id, path))
            /\ memo' = <<>>
            /\ last' = Call("add", id, path, FALSE, FALSE, <<>>)

\* remove_from_path_cache(game), lines 184-193.
remove_from_path_cache(id) ==
    /\ IF read_path_cache(cache_file).raised
       THEN /\ UNCHANGED <<cache_file, memo>>
            /\ last' = Call("remove", id, NoPath, FALSE, TRUE, <<>>)
       ELSE IF id \notin DictKeys(read_path_cache(cache_file).value)
       THEN /\ UNCHANGED <<cache_file, memo>>
            /\ last' = Call("remove", id, NoPath, FALSE, FALSE, <<>>)
       ELSE /\ cache_file' = JsonFile(DictDel(read_path_cache(cache_file).value, id))
            /\ memo' = <<>>
            /\ last' = Call("remove", id, NoPath, FALSE, FALSE, <<>>)

\* A caller reads the file, read_path_cache(), lines 203-209 ...
ReadPathCache ==
    /\ last' = Call("read", NoId, NoPath, FALSE, read_path_cache(cache_file).raised,
                    read_path_cache(cache_file).value)
    /\ UNCHANGED <<cache_file, memo>>

\* ... or asks for the memoized snapshot, get_path_cache(), lines 196-200.
GetPathCache ==
    /\ last' = Call("get", NoId, NoPath, FALSE, get_path_cache.raised,
                    get_path_cache.value)
    /\ memo' = MemoAfterGet
    /\ UNCHANGED cache_file

(***************************************************************************)
(* scan_directory and the functions it calls                               *)
(***************************************************************************)
\* The folders dirname may hold and the slugs slugify gives them; "c" is a
\* slug no folder has.
Folders == {"A", "B"}
slugify(folder) == IF folder = "A" THEN "a" ELSE "b"
Slugs == {"a", "b", "c"}
\* os.path.join(dirname, folder)
Join(folder) == <<"dirname", folder>>
\* find_game_folder falls off its end: None.
NoFolder == <<"None">>
\* The relative path an installer script names, or none.
Exe == "x"
NoExe == ""

\* A directory: its folders in the order os.listdir gives them, and the
\* files that exist below them.
EmptyDir == [folders |-> <<>>, files |-> {}]

\* get_game_slugs_and_folders(dirname), lines 22-30.
RECURSIVE slugs_and_folders_from(_, _)
slugs_and_folders_from(folders, game_folders) ==
    IF folders = <<>> THEN game_folders
    ELSE slugs_and_folders_from(Tail(folders),
             DictSet(game_folders, slugify(Head(folders)), Head(folders)))
get_game_slugs_and_folders(dirname) == slugs_and_folders_from(dirname.folders, <<>>)

\* Lines 34-37 and 39-42: the folder of a slug, when the map has the slug
\* and the folder exists.
FolderOfSlug(dirname, slug, slugs_map) ==
    IF /\ slug \in DictKeys(slugs_map)
       /\ \E i \in 1..Len(dirname.folders) : dirname.folders[i] = DictGet(slugs_map, slug)
    THEN Join(DictGet(slugs_map, slug))
    ELSE NoFolder

RECURSIVE find_alias_folder(_, _, _)
find_alias_folder(dirname, aliases, slugs_map) ==
    IF aliases = <<>> THEN NoFolder
    ELSE IF FolderOfSlug(dirname, Head(aliases), slugs_map) # NoFolder
    THEN FolderOfSlug(dirname, Head(aliases), slugs_map)
    ELSE find_alias_folder(dirname, Tail(aliases), slugs_map)

\* find_game_folder(dirname, api_game, slugs_map), lines 33-42.
find_game_folder(dirname, api_game, slugs_map) ==
    IF FolderOfSlug(dirname, api_game.slug, slugs_map) # NoFolder
    THEN FolderOfSlug(dirname, api_game.slug, slugs_map)
    ELSE find_alias_folder(dirname, api_game.aliases, slugs_map)

\* detect_game_from_installer(game_folder, installer), lines 45-60:
\* os.path.join raises TypeError when game_folder is None.
detect_game_from_installer(dirname, game_folder, installer) ==
    IF installer.exe = NoExe THEN [raised |-> FALSE, full_path |-> NoPath]
    ELSE IF game_folder = NoFolder THEN [raised |-> TRUE, full_path |-> NoPath]
    ELSE IF <<game_folder, installer.exe>> \in dirname.files
    THEN [raised |-> FALSE, full_path |-> <<game_folder, installer.exe>>]
    ELSE [raised |-> FALSE, full_path |-> NoPath]

NoInstaller == [game_slug |-> "", exe |-> NoExe]

\* find_game(game_folder, api_game), lines 63-69; installers is what
\* get_game_installers(api_game["slug"]) answers.
RECURSIVE find_game_from(_, _, _)
find_game_from(dirname, game_folder, installers) ==
    IF installers = <<>>
    THEN [raised |-> FALSE, full_path |-> NoPath, installer |-> NoInstaller]
    ELSE LET found == detect_game_from_installer(dirname, game_folder, Head(installers))
         IN  IF found.raised
             THEN [raised |-> TRUE, full_path |-> NoPath, installer |-> NoInstaller]
             ELSE IF found.full_path # NoPath
             THEN [raised |-> FALSE, full_path |-> found.full_path,
                   installer |-> Head(installers)]
             ELSE find_game_from(dirname, game_folder, Tail(installers))
find_game(dirname, game_folder, api_game) ==
    find_game_from(dirname, game_folder, api_game.installers)

\* The locals of scan_directory before its loop (lines 90-91), with what
\* the loop has done: the folders it found in directories (used), those it
\* passed to find_game (lookups) and to install_game (installs), the installs
\* that returned (saved) or raised MissingGameDependencyError (failed), and
\* the slugs passed to download_lutris_media (downloads).
ScanStart == [slugs_seen |-> {}, slugs_installed |-> {}, raised |-> FALSE,
              used |-> {}, lookups |-> <<>>, installs |-> <<>>, saved |-> {},
              failed |-> {}, downloads |-> <<>>]

\* One turn of the loop, lines 93-108.
scan_step(dirname, slugs_map, directories, deps, api_game, st) ==
    LET game_folder == find_game_folder(dirname, api_game, slugs_map)
        seen == [st EXCEPT !.slugs_seen = @ \cup {api_game.slug}]
        looked == [seen EXCEPT !.lookups = Append(@, game_folder)]
        found == find_game(dirname, game_folder, api_game)
    IN  IF api_game.slug \in st.slugs_seen THEN st
        ELSE IF game_folder \in directories
        THEN [seen EXCEPT !.slugs_installed = @ \cup {api_game.slug},
                          !.used = @ \cup {game_folder}]
        ELSE IF found.raised THEN [looked EXCEPT !.raised = TRUE]
        ELSE IF found.full_path # NoPath
        THEN [looked EXCEPT
                 !.installs = Append(@, game_folder),
                 !.saved = IF found.installer.game_slug \in deps THEN @
                           ELSE @ \cup {game_folder},
                 !.failed = IF found.installer.game_slug \in deps
                            THEN @ \cup {[slug |-> api_game.slug,
                                          game_folder |-> game_folder,
                                          game_slug |-> found.installer.game_slug]}
                            ELSE @,
                 !.downloads = Append(@, found.installer.game_slug),
                 !.slugs_installed = @ \cup {api_game.slug}]
        ELSE looked

\* The loop, lines 92-108: an exception ends it.
RECURSIVE scan_loop(_, _, _, _, _, _)
scan_loop(dirname, slugs_map, directories, deps, games, st) ==
    IF games = <<>> \/ st.raised THEN st
    ELSE scan_loop(dirname, slugs_map, directories, deps, Tail(games),
                   scan_step(dirname, slugs_map, directories, deps, Head(games), st))

\* A partition step that keeps every entry.
MapFilter_KeepsAll(slugs_map, keep) == slugs_map

\* Lines 110-111: the entries of slugs_map whose slug is, or is not, in
\* slugs_installed.
MapFilter(slugs_map, keep) == SelectSeq(slugs_map, LAMBDA e : e[1] \in keep)

NoScan == [returned |-> FALSE, raised |-> FALSE, slugs_map |-> <<>>,
           directories |-> {}, installed_map |-> <<>>, missing_map |-> <<>>,
           slugs_installed |-> {}, used |-> {}, lookups |-> <<>>,
           installs |-> <<>>, saved |-> {}, failed |-> {}, downloads |-> <<>>]

\* What scan_directory(dirname) does and returns, lines 86-112.
ScanOf(dirname, games, directories, deps) ==
    LET slugs_map == get_game_slugs_and_folders(dirname)
        st == scan_loop(dirname, slugs_map, directories, deps, games, ScanStart)
    IN  [returned |-> ~st.raised, raised |-> st.raised, slugs_map |-> slugs_map,
         directories |-> directories,
         installed_map |-> IF st.raised THEN <<>>
                           ELSE MapFilter(slugs_map, st.slugs_installed),
         missing_map |-> IF st.raised THEN <<>>
                         ELSE MapFilter(slugs_map, DictKeys(slugs_map) \ st.slugs_installed),
         slugs_installed |-> st.slugs_installed, used |-> st.used,
         lookups |-> st.lookups, installs |-> st.installs, saved |-> st.saved,
         failed |-> st.failed, downloads |-> st.downloads]

(***************************************************************************)
(* get_path_from_config                                                    *)
(***************************************************************************)
\* A string of the configuration is the sequence of its characters: "" is
\* <<>>, "a.a" is <<"a", ".", "a">>. game_config is a function from the
\* keys it holds to their values.
EmptyStr == <<>>
\* The user's home directory, and game.directory.
HomeDir == <<"/", "h">>
GameDirectory == <<"/", "d">>

\* str.startswith and the 'in' test of a character.
startswith(s, c) == s # <<>> /\ s[1] = c
Contains(s, c) == \E i \in 1..Len(s) : s[i] = c

\* os.path.expanduser: a leading "~" that ends the string or is followed by
\* "/" becomes the home directory; "~name" of an unknown user stays.
expanduser(path) ==
    IF startswith(path, "~") /\ (Len(path) = 1 \/ path[2] = "/")
    THEN HomeDir \o SubSeq(path, 2, Len(path))
    ELSE path

\* os.path.join(a, b)
join(a, b) ==
    IF startswith(b, "/") THEN b
    ELSE IF a = <<>> \/ a[Len(a)] = "/" THEN a \o b
    ELSE a \o <<"/">> \o b

\* Line 127: the keys, in the order they are probed.
KeyOrder == <<"exe", "main_file", "iso", "rom", "disk-a", "path", "files">>

\* Lines 133-137: a non-empty value becomes the path.
ResolvePath(g, path) ==
    LET expanded == expanduser(path) IN
    IF ~startswith(expanded, "/") THEN join(g.directory, expanded)
    ELSE expanded

\* Lines 127-140, from the i-th key on. path[0] of an empty list raises
\* IndexError (line 131).
RECURSIVE probe_keys(_, _)
probe_keys(g, i) ==
    IF i > Len(KeyOrder) THEN [raised |-> FALSE, value |-> EmptyStr]
    ELSE LET key == KeyOrder[i]
         IN  IF key \notin DOMAIN g.game_config THEN probe_keys(g, i + 1)
             ELSE IF key = "files" /\ g.game_config[key] = <<>>
             THEN [raised |-> TRUE, value |-> EmptyStr]
             ELSE LET path == IF key = "files" THEN g.game_config[key][1]
                              ELSE g.game_config[key]
                  IN  IF path # EmptyStr
                      THEN [raised |-> FALSE, value |-> ResolvePath(g, path)]
                      ELSE probe_keys(g, i + 1)

\* Lines 123-125: a MAME rom referenced by its id.
MameSkip(g) ==
    /\ g.runner_name = "mame"
    /\ "main_file" \in DOMAIN g.game_config
    /\ ~Contains(g.game_config["main_file"], ".")

\* Lines 115-140.
get_path_from_config(g) ==
    IF ~g.has_config THEN [raised |-> FALSE, value |-> EmptyStr]
    ELSE IF MameSkip(g) THEN [raised |-> FALSE, value |-> EmptyStr]
    ELSE probe_keys(g, 1)

\* No call of get_path_from_config made yet.
NoDerivation == [called |-> FALSE, raised |-> FALSE, value |-> EmptyStr]

\* The keys of game_config that are probed, and a game with no configuration.
Keys == {KeyOrder[i] : i \in 1..Len(KeyOrder)}
NoGame == [has_config |-> FALSE, runner_name |-> "linux",
           directory |-> GameDirectory, game_config |-> [k \in {} |-> EmptyStr]]

(***************************************************************************)
(* The history of a run                                                    *)
(***************************************************************************)
Active == {w \in WorkerIds : w_pc[w] # "none"}
\* The control context is between two requests.
AtRest == c_pc = "idle"
\* The tracker is idle: no request in progress, no worker, sentinel None.
Idle == AtRest /\ Active = {} /\ check_game_ids = "None"

\* A request is made: update_missing(ids), or update_all_missing().
HistoryCall(ids, rescan) ==
    /\ n_requests < MaxRequests
    /\ n_requests' = n_requests + 1
    /\ owed' = owed \cup ids
    /\ IF Idle
       THEN /\ pass_state' = "run"
            /\ pass_rescan' = rescan
            /\ pass_ids' = ids
            /\ pass_missing' = missing_game_ids
            /\ pass_arrivals' = FALSE
            /\ pass_fs' = FALSE
            /\ pass_fires' = 0
            /\ pass_failed' = FALSE
       ELSE IF pass_state = "run"
       THEN /\ pass_arrivals' = TRUE
            /\ UNCHANGED <<pass_state, pass_rescan, pass_ids, pass_missing,
                           pass_fs, pass_fires, pass_failed>>
       ELSE /\ pass_state' = "none"
            /\ pass_rescan' = FALSE
            /\ pass_ids' = {}
            /\ pass_missing' = {}
            /\ pass_arrivals' = FALSE
            /\ pass_fs' = FALSE
            /\ pass_fires' = 0
            /\ pass_failed' = FALSE
    /\ UNCHANGED <<n_fs_changes, scan_owed, dirty, last>>
    /\ UNCHANGED extVars

\* Worker w looks an id up (line 261), loads the keys of the cache (line
\* 292), fires 'updated' (line 283) or returns from _fetch.
LooksUp(w) == w_pc[w] = "f261" /\ w_pc'[w] = "f263"
LoadsAll(w) == w_pc[w] = "n291" /\ w_pc'[w] = "n293"
Fires(w) == w_pc[w] = "n283"
Returns(w) == w_pc'[w] = "none"
\* The step worker w is about to take raises: the cache file cannot be
\* read, the sentinel is None where a set is expected, an observer raises,
\* or os.path.exists does.
Raises(w) ==
    \/ w_pc[w] \in {"n291", "f261"} /\ get_path_cache.raised
    \/ w_pc[w] \in {"n293", "n301", "n302"} /\ check_game_ids = "None"
    \/ w_pc[w] = "n283" /\ observer_raises
    \/ w_pc[w] = "f263" /\ w_path[w] # NoPath /\ ExistsRaises(w_path[w])

HistoryWorker(w) ==
    /\ owed' = IF LooksUp(w) THEN owed \ {w_game_id[w]} ELSE owed
    /\ scan_owed' = IF LooksUp(w) THEN scan_owed \ {w_game_id[w]}
                    ELSE IF LoadsAll(w) THEN scan_owed \cup DictKeys(memo'[1])
                    ELSE scan_owed
    /\ dirty' = IF missing_game_ids' # missing_game_ids THEN TRUE
                ELSE IF Fires(w) THEN FALSE
                ELSE dirty
    /\ pass_fires' = IF Fires(w) /\ pass_state = "run" /\ pass_fires < 2
                     THEN pass_fires + 1 ELSE pass_fires
    /\ pass_state' = IF pass_state = "run" /\ Returns(w) THEN "done"
                     ELSE pass_state
    /\ pass_failed' = (pass_failed \/ (Raises(w) /\ ~w_final[w]))
    /\ UNCHANGED <<n_requests, n_fs_changes, pass_rescan, pass_ids, pass_missing,
                   pass_arrivals, pass_fs, last>>
    /\ UNCHANGED extVars

HistoryFs ==
    /\ n_fs_changes < MaxFsChanges
    /\ n_fs_changes' = n_fs_changes + 1
    /\ pass_fs' = (pass_state # "none")
    /\ UNCHANGED <<n_requests, owed, scan_owed, dirty, pass_state, pass_rescan,
                   pass_ids, pass_missing, pass_arrivals, pass_fires, pass_failed,
                   last>>
    /\ UNCHANGED extVars

(***************************************************************************)
(* MissingGames: the control context                                       *)
(***************************************************************************)
\* Truthiness of self._check_game_ids: None and the empty set are falsy.
Truthy(ref, obj) == ref = "set" /\ obj # {}

\* Line 238: start_fetch = self._check_game_ids is None
StartFetch(ref) == ref = "None"

\* After line 241: line 243 tests game_ids (None and empty are falsy).
AfterInit(ids) == IF ids # {} THEN "u244" ELSE "u246"

FreeSlots == {w \in WorkerIds : w_pc[w] = "none"}
NewWorker == CHOOSE w \in FreeSlots : \A v \in FreeSlots : w <= v

\* update_all_missing(), line 229; the call of update_missing() follows.
update_all_missing ==
    /\ c_pc = "idle"
    /\ check_all_games' = TRUE
    /\ c_pc' = "u238"
    /\ c_game_ids' = {}
    /\ UNCHANGED <<missing_game_ids, check_game_ids, set_obj, check_game_queue,
                   changed, c_start_fetch, c_ref, workerVars, envVars, obsVars>>
    /\ HistoryCall({}, TRUE)

\* update_missing(game_ids) called directly: the arguments are bound.
update_missing(ids) ==
    /\ c_pc = "idle"
    /\ c_pc' = "u238"
    /\ c_game_ids' = ids
    /\ UNCHANGED <<trackerVars, c_start_fetch, c_ref, workerVars, envVars, obsVars>>
    /\ HistoryCall(ids, FALSE)

\* Line 238.
update_missing_238 ==
    /\ c_pc = "u238"
    /\ c_start_fetch' = StartFetch(check_game_ids)
    /\ c_pc' = "u240"
    /\ UNCHANGED <<trackerVars, c_game_ids, c_ref, workerVars, envVars, obsVars>>
    /\ UNCHANGED <<histVars, extVars>>

\* Line 240: if not self._check_game_ids
update_missing_240 ==
    /\ c_pc = "u240"
    /\ c_pc' = IF ~Truthy(check_game_ids, set_obj) THEN "u241"
               ELSE AfterInit(c_game_ids)
    /\ UNCHANGED <<trackerVars, c_game_ids, c_start_fetch, c_ref, workerVars,
                   envVars, obsVars>>
    /\ UNCHANGED <<histVars, extVars>>

\* Line 241 as it would be if the request also emptied the worker's queue.
update_missing_241_ClearsQueue ==
    /\ c_pc = "u241"
    /\ check_game_ids' = "set"
    /\ set_obj' = {}
    /\ check_game_queue' = <<>>
    /\ c_pc' = AfterInit(c_game_ids)
    /\ UNCHANGED <<missing_game_ids, check_all_games, changed,
                   c_game_ids, c_start_fetch, c_ref, workerVars, envVars, obsVars>>
    /\ UNCHANGED <<histVars, extVars>>

\* Line 241: self._check_game_ids = set()
update_missing_241 ==
    /\ c_pc = "u241"
    /\ check_game_ids' = "set"
    /\ set_obj' = {}
    /\ c_pc' = AfterInit(c_game_ids)
    /\ UNCHANGED <<missing_game_ids, check_game_queue, check_all_games, changed,
                   c_game_ids, c_start_fetch, c_ref, workerVars, envVars, obsVars>>
    /\ UNCHANGED <<histVars, extVars>>

\* Line 244, self._check_game_ids |= set(game_ids): the attribute is loaded
\* and the set it names updated in place (None raises TypeError) ...
update_missing_244 ==
    /\ c_pc = "u244"
    /\ IF check_game_ids = "None"
       THEN /\ c_raised' = TRUE
            /\ c_pc' = "idle"
            /\ c_game_ids' = {}
            /\ c_start_fetch' = FALSE
            /\ UNCHANGED <<set_obj, c_ref>>
       ELSE /\ set_obj' = set_obj \cup c_game_ids
            /\ c_ref' = "set"
            /\ c_pc' = "u244s"
            /\ UNCHANGED <<c_game_ids, c_start_fetch, c_raised>>
    /\ UNCHANGED <<missing_game_ids, check_game_ids, check_game_queue,
                   check_all_games, changed, workerVars, envVars, uncaught>>
    /\ UNCHANGED <<histVars, extVars>>

\* ... and the result, the same set object, is stored back.
update_missing_244_store ==
    /\ c_pc = "u244s"
    /\ check_game_ids' = c_ref
    /\ c_ref' = "None"
    /\ c_pc' = "u246"
    /\ UNCHANGED <<missing_game_ids, set_obj, check_game_queue, check_all_games,
                   changed, c_game_ids, c_start_fetch, workerVars, envVars, obsVars>>
    /\ UNCHANGED <<histVars, extVars>>

\* Lines 246-248: AsyncCall(self._fetch, None, initial_delay) starts a thread.
update_missing_246 ==
    /\ c_pc = "u246"
    /\ IF c_start_fetch
       THEN /\ FreeSlots # {}
            /\ w_pc' = [w_pc EXCEPT ![NewWorker] = "f253"]
       ELSE UNCHANGED w_pc
    /\ c_pc' = "idle"
    /\ c_game_ids' = {}
    /\ c_start_fetch' = FALSE
    /\ UNCHANGED <<trackerVars, c_ref, w_game_id, w_path, w_final, envVars, obsVars>>
    /\ UNCHANGED <<histVars, extVars>>

(***************************************************************************)
(* MissingGames: the worker thread, _fetch and what it calls               *)
(***************************************************************************)
Goto(w, pc) == w_pc' = [w_pc EXCEPT ![w] = pc]

\* The thread returns from _fetch.
ThreadEnd(w) ==
    /\ w_pc' = [w_pc EXCEPT ![w] = "none"]
    /\ w_game_id' = [w_game_id EXCEPT ![w] = NoId]
    /\ w_path' = [w_path EXCEPT ![w] = NoPath]
    /\ w_final' = [w_final EXCEPT ![w] = FALSE]

\* Where an exception raised by worker w goes: inside the try (lines
\* 256-270, w_final false) to the except clause and on to the finally
\* clause; inside the finally clause out of _fetch.
Caught(final) == ~final
Raise(w) ==
    IF Caught(w_final[w])
    THEN /\ Goto(w, "f275")
         /\ w_game_id' = [w_game_id EXCEPT ![w] = NoId]
         /\ w_path' = [w_path EXCEPT ![w] = NoPath]
         /\ UNCHANGED <<w_final, uncaught>>
    ELSE /\ ThreadEnd(w)
         /\ uncaught' = TRUE

\* Line 253: time.sleep(initial_delay); the loop starts.
fetch_253(w) ==
    /\ w_pc[w] = "f253"
    /\ Goto(w, "n289")
    /\ UNCHANGED <<trackerVars, ctlVars, w_game_id, w_path, w_final, envVars, obsVars>>
    /\ HistoryWorker(w)

\* Line 289: if self._check_all_games
next_game_id_289(w) ==
    /\ w_pc[w] = "n289"
    /\ Goto(w, IF check_all_games THEN "n290" ELSE "n295")
    /\ UNCHANGED <<trackerVars, ctlVars, w_game_id, w_path, w_final, envVars, obsVars>>
    /\ HistoryWorker(w)

\* Line 290.
next_game_id_290(w) ==
    /\ w_pc[w] = "n290"
    /\ check_all_games' = FALSE
    /\ Goto(w, "n291")
    /\ UNCHANGED <<missing_game_ids, check_game_ids, set_obj, check_game_queue,
                   changed, ctlVars, w_game_id, w_path, w_final, envVars, obsVars>>
    /\ HistoryWorker(w)

\* Lines 291-292: self._check_game_queue = list(get_path_cache())
next_game_id_291(w) ==
    /\ w_pc[w] = "n291"
    /\ IF get_path_cache.raised
       THEN /\ Raise(w)
            /\ UNCHANGED <<check_game_queue, memo>>
       ELSE /\ check_game_queue' = DictKeyList(get_path_cache.value)
            /\ memo' = MemoAfterGet
            /\ Goto(w, "n293")
            /\ UNCHANGED <<w_game_id, w_path, w_final, uncaught>>
    /\ UNCHANGED <<missing_game_ids, check_game_ids, set_obj, check_all_games,
                   changed, ctlVars, cache_file, fs, observer_raises, c_raised>>
    /\ HistoryWorker(w)

\* Lines 293 and 302: self._check_game_ids.clear()
ClearIds(w, next) ==
    /\ IF check_game_ids = "None"
       THEN /\ Raise(w)
            /\ UNCHANGED set_obj
       ELSE /\ set_obj' = {}
            /\ Goto(w, next)
            /\ UNCHANGED <<w_game_id, w_path, w_final, uncaught>>
    /\ UNCHANGED <<missing_game_ids, check_game_ids, check_game_queue,
                   check_all_games, changed, ctlVars, envVars, c_raised>>

next_game_id_293(w) ==
    /\ w_pc[w] = "n293"
    /\ ClearIds(w, "n295")
    /\ HistoryWorker(w)

\* Line 295: if not self._check_game_queue and self._check_game_ids
Stalled(queue, ref, obj) == queue = <<>> /\ Truthy(ref, obj)

next_game_id_295(w) ==
    /\ w_pc[w] = "n295"
    /\ Goto(w, IF Stalled(check_game_queue, check_game_ids, set_obj)
               THEN "n281" ELSE "n304")
    /\ UNCHANGED <<trackerVars, ctlVars, w_game_id, w_path, w_final, envVars, obsVars>>
    /\ HistoryWorker(w)

\* _notify_changed returns: into _next_game_id at line 300, or, called from
\* the finally clause, out of _fetch.
NotifyReturn(w) ==
    IF w_final[w] THEN ThreadEnd(w)
    ELSE /\ Goto(w, "n301")
         /\ UNCHANGED <<w_game_id, w_path, w_final>>

\* Line 281: if self._changed
notify_changed_281(w) ==
    /\ w_pc[w] = "n281"
    /\ IF changed
       THEN /\ Goto(w, "n282")
            /\ UNCHANGED <<w_game_id, w_path, w_final>>
       ELSE NotifyReturn(w)
    /\ UNCHANGED <<trackerVars, ctlVars, envVars, obsVars>>
    /\ HistoryWorker(w)

\* Line 282.
notify_changed_282(w) ==
    /\ w_pc[w] = "n282"
    /\ changed' = FALSE
    /\ Goto(w, "n283")
    /\ UNCHANGED <<missing_game_ids, check_game_ids, set_obj, check_game_queue,
                   check_all_games, ctlVars, w_game_id, w_path, w_final, envVars,
                   obsVars>>
    /\ HistoryWorker(w)

\* Line 283: self.updated.fire()
notify_changed_283(w) ==
    /\ w_pc[w] = "n283"
    /\ IF observer_raises
       THEN Raise(w)
       ELSE /\ NotifyReturn(w)
            /\ UNCHANGED uncaught
    /\ UNCHANGED <<trackerVars, ctlVars, envVars, c_raised>>
    /\ HistoryWorker(w)

\* The orders in which list() may give the members of a set.
Orders(S) == {q \in [1..Cardinality(S) -> S] : \A i, j \in 1..Cardinality(S) :
                                                  q[i] = q[j] => i = j}

\* Lines 300-301: time.sleep(CHECK_STALL), then
\* self._check_game_queue = list(self._check_game_ids)
next_game_id_301(w) ==
    /\ w_pc[w] = "n301"
    /\ IF check_game_ids = "None"
       THEN /\ Raise(w)
            /\ UNCHANGED check_game_queue
       ELSE /\ check_game_queue' \in Orders(set_obj)
            /\ Goto(w, "n302")
            /\ UNCHANGED <<w_game_id, w_path, w_final, uncaught>>
    /\ UNCHANGED <<missing_game_ids, check_game_ids, set_obj, check_all_games,
                   changed, ctlVars, envVars, c_raised>>
    /\ HistoryWorker(w)

next_game_id_302(w) ==
    /\ w_pc[w] = "n302"
    /\ ClearIds(w, "n304")
    /\ HistoryWorker(w)

\* Lines 304-307 and 257-259: pop the last id, or leave the loop.
next_game_id_304(w) ==
    /\ w_pc[w] = "n304"
    /\ IF check_game_queue # <<>>
       THEN /\ w_game_id' = [w_game_id EXCEPT ![w] = check_game_queue[Len(check_game_queue)]]
            /\ check_game_queue' = SubSeq(check_game_queue, 1, Len(check_game_queue) - 1)
            /\ Goto(w, "f261")
       ELSE /\ Goto(w, "f275")
            /\ UNCHANGED <<w_game_id, check_game_queue>>
    /\ UNCHANGED <<missing_game_ids, check_game_ids, set_obj, check_all_games,
                   changed, ctlVars, w_path, w_final, envVars, obsVars>>
    /\ HistoryWorker(w)

\* Line 261: path = get_path_cache().get(game_id)
fetch_261(w) ==
    /\ w_pc[w] = "f261"
    /\ IF get_path_cache.raised
       THEN /\ Raise(w)
            /\ UNCHANGED memo
       ELSE /\ w_path' = [w_path EXCEPT ![w] = DictGet(get_path_cache.value, w_game_id[w])]
            /\ memo' = MemoAfterGet
            /\ Goto(w, "f263")
            /\ UNCHANGED <<w_game_id, w_final, uncaught>>
    /\ UNCHANGED <<trackerVars, ctlVars, cache_file, fs, observer_raises, c_raised>>
    /\ HistoryWorker(w)

\* Lines 263-270: the set of missing ids after game_id was checked.
MissingAfter(missing, id, path, exists) ==
    IF path = NoPath THEN missing
    ELSE IF exists THEN missing \ {id}
    ELSE missing \cup {id}

fetch_263(w) ==
    /\ w_pc[w] = "f263"
    /\ IF w_path[w] # NoPath /\ ExistsRaises(w_path[w])
       THEN /\ Raise(w)
            /\ UNCHANGED missing_game_ids
       ELSE /\ missing_game_ids' = MissingAfter(missing_game_ids, w_game_id[w],
                                                w_path[w], w_path[w] \in fs)
            /\ Goto(w, IF missing_game_ids' # missing_game_ids THEN "f267" ELSE "n289")
            /\ w_game_id' = [w_game_id EXCEPT ![w] = NoId]
            /\ w_path' = [w_path EXCEPT ![w] = NoPath]
            /\ UNCHANGED <<w_final, uncaught>>
    /\ UNCHANGED <<check_game_ids, set_obj, check_game_queue, check_all_games,
                   changed, ctlVars, envVars, c_raised>>
    /\ HistoryWorker(w)

\* Lines 267 and 270: self._changed = True
fetch_267(w) ==
    /\ w_pc[w] = "f267"
    /\ changed' = TRUE
    /\ Goto(w, "n289")
    /\ UNCHANGED <<missing_game_ids, check_game_ids, set_obj, check_game_queue,
                   check_all_games, ctlVars, w_game_id, w_path, w_final, envVars,
                   obsVars>>
    /\ HistoryWorker(w)

\* Lines 273-276: the finally clause clears the sentinel, then notifies.
\* A set object nothing refers to any more is dropped.
fetch_275(w) ==
    /\ w_pc[w] = "f275"
    /\ check_game_ids' = "None"
    /\ set_obj' = IF c_ref = "set" THEN set_obj ELSE {}
    /\ w_final' = [w_final EXCEPT ![w] = TRUE]
    /\ Goto(w, "n281")
    /\ UNCHANGED <<missing_game_ids, check_game_queue, check_all_games, changed,
                   ctlVars, w_game_id, w_path, envVars, obsVars>>
    /\ HistoryWorker(w)

(***************************************************************************)
(* The environment                                                         *)
(***************************************************************************)
\* A file appears on disk or disappears from it.
FsChange(p) ==
    /\ fs' = IF p \in fs THEN fs \ {p} ELSE fs \cup {p}
    /\ UNCHANGED <<trackerVars, ctlVars, workerVars, cache_file, memo,
                   observer_raises, obsVars>>
    /\ HistoryFs

(***************************************************************************)
(* Specifications                                                          *)
(***************************************************************************)
\* The cache file the tracker starts with: a path for the first id, none
\* for the second.
InitDict == << <<Str(1), "pa">> >>

InitTracker ==
    /\ missing_game_ids = {}
    /\ check_game_ids = "None"
    /\ set_obj = {}
    /\ check_game_queue = <<>>
    /\ check_all_games = FALSE
    /\ changed = FALSE
    /\ c_pc = "idle"
    /\ c_game_ids = {}
    /\ c_start_fetch = FALSE
    /\ c_ref = "None"
    /\ w_pc = [w \in WorkerIds |-> "none"]
    /\ w_game_id = [w \in WorkerIds |-> NoId]
    /\ w_path = [w \in WorkerIds |-> NoPath]
    /\ w_final = [w \in WorkerIds |-> FALSE]
    /\ memo = <<>>
    /\ uncaught = FALSE
    /\ c_raised = FALSE

InitHistory ==
    /\ n_requests = 0
    /\ n_fs_changes = 0
    /\ owed = {}
    /\ scan_owed = {}
    /\ dirty = FALSE
    /\ pass_state = "none"
    /\ pass_rescan = FALSE
    /\ pass_ids = {}
    /\ pass_missing = {}
    /\ pass_arrivals = FALSE
    /\ pass_fs = FALSE
    /\ pass_fires = 0
    /\ pass_failed = FALSE
    /\ last = NoCall

\* No path cache function is being executed step by step.
InitRaceVars ==
    /\ p_pc = "idle"
    /\ p_cache = <<>>
    /\ g_pc = "idle"
    /\ g_value = <<>>
    /\ g_result = NoResult
    /\ n_calls = 0

\* Nothing to scan, and no scan made.
InitScanVars ==
    /\ root_dir = EmptyDir
    /\ api_games = <<>>
    /\ deps_missing = {}
    /\ used_directories = {}
    /\ scan_out = NoScan
    /\ install_log = <<>>
    /\ n_scans = 0

\* A game without configuration, and no path derived.
InitPathVars ==
    /\ game = NoGame
    /\ path_out = NoDerivation

InitExt == InitRaceVars /\ InitScanVars /\ InitPathVars

Init ==
    /\ InitTracker
    /\ InitHistory
    /\ InitExt
    /\ fs \in SUBSET Paths
    /\ cache_file = JsonFile(InitDict)
    /\ observer_raises = FALSE

ControlStep ==
    \/ update_missing_238
    \/ update_missing_240
    \/ update_missing_241
    \/ update_missing_244
    \/ update_missing_244_store
    \/ update_missing_246

Worker(w) ==
    \/ fetch_253(w)
    \/ next_game_id_289(w)
    \/ next_game_id_290(w)
    \/ next_game_id_291(w)
    \/ next_game_id_293(w)
    \/ next_game_id_295(w)
    \/ notify_changed_281(w)
    \/ notify_changed_282(w)
    \/ notify_changed_283(w)
    \/ next_game_id_301(w)
    \/ next_game_id_302(w)
    \/ next_game_id_304(w)
    \/ fetch_261(w)
    \/ fetch_263(w)
    \/ fetch_267(w)
    \/ fetch_275(w)

Next ==
    \/ update_all_missing
    \/ \E ids \in SUBSET GameIds : update_missing(ids)
    \/ ControlStep
    \/ \E w \in WorkerIds : Worker(w)
    \/ \E p \in Paths : FsChange(p)

Spec == Init /\ [][Next]_vars

\* The tracker where things fail: the cache file may be missing, the
\* registered observer may raise.
FailDict == << <<Str(1), "pa">>, <<Str(2), NotAPath>> >>

InitFail ==
    /\ InitTracker
    /\ InitHistory
    /\ InitExt
    /\ fs = Paths
    /\ \/ cache_file = JsonFile(InitDict) /\ observer_raises = TRUE
       \/ cache_file \in {AbsentFile, JsonFile(FailDict)} /\ observer_raises = FALSE

SpecFail == InitFail /\ [][Next]_vars

\* The path cache on its own: the tracker stays idle. The ids callers pass
\* are those of Game objects, strings or integers.
CallerIds == {Int(1), Str(1), Str(2)}
CachePaths == {"pa", "pb"}
CacheDicts == { <<>>,
                << <<Str(1), "pa">> >>,
                << <<Str(1), "pb">>, <<Str(2), "pa">> >> }

InitCache ==
    /\ InitTracker
    /\ InitHistory
    /\ InitExt
    /\ fs = {}
    /\ cache_file \in {AbsentFile, CorruptFile} \cup {JsonFile(d) : d \in CacheDicts}
    /\ observer_raises = FALSE

CacheFrame ==
    UNCHANGED <<trackerVars, ctlVars, workerVars, fs, observer_raises, obsVars,
                n_requests, n_fs_changes, owed, scan_owed, dirty, pass_state,
                pass_rescan, pass_ids, pass_missing, pass_arrivals, pass_fs,
                pass_fires, pass_failed, extVars>>

NextCache ==
    \/ \E recreate \in BOOLEAN : build_path_cache(recreate) /\ CacheFrame
    \/ \E id \in CallerIds, path \in CachePaths \cup {NoPath} :
           add_to_path_cache(id, path) /\ CacheFrame
    \/ \E id \in CallerIds : remove_from_path_cache(id) /\ CacheFrame
    \/ ReadPathCache /\ CacheFrame
    \/ GetPathCache /\ CacheFrame

SpecCache == InitCache /\ [][NextCache]_vars

(***************************************************************************)
(* The path cache functions one step at a time: the control context        *)
(* rewrites the file while a second thread (the worker at line 261, or any *)
(* other reader) reads it                                                  *)
(***************************************************************************)
\* What open(GAME_PATH_CACHE_PATH, "w") leaves until something is written: a
\* file of no bytes, on which json.load raises JSONDecodeError.
TruncatedFile == CorruptFile

RaceFrame ==
    UNCHANGED <<trackerVars, ctlVars, workerVars, fs, observer_raises, obsVars,
                n_requests, n_fs_changes, owed, scan_owed, dirty, pass_state,
                pass_rescan, pass_ids, pass_missing, pass_arrivals, pass_fs,
                pass_fires, pass_failed, scanVars, pathVars>>

\* Every action below counts as one step of a call started earlier, or
\* starts one.
StartCall == n_calls < MaxCalls /\ n_calls' = n_calls + 1

\* build_path_cache(recreate) is called: line 159.
build_159(recreate) ==
    /\ p_pc = "idle"
    /\ StartCall
    /\ last' = Call("build", NoId, NoPath, recreate, FALSE, <<>>)
    /\ p_pc' = IF BuildSkipped(cache_file, recreate) THEN "idle" ELSE "b162"
    /\ UNCHANGED <<cache_file, memo, p_cache, g_pc, g_value, g_result>>
    /\ RaceFrame

\* Line 162: open(..., "w") truncates the file.
build_162 ==
    /\ p_pc = "b162"
    /\ cache_file' = TruncatedFile
    /\ p_pc' = "b163"
    /\ UNCHANGED <<memo, last, p_cache, g_pc, g_value, g_result, n_calls>>
    /\ RaceFrame

\* Line 163: game_paths = get_game_paths(). The query of the library may
\* raise: the with statement closes the file and the exception leaves
\* build_path_cache, line 166 not reached.
build_163 ==
    /\ p_pc = "b163"
    /\ \/ /\ p_cache' = get_game_paths
          /\ p_pc' = "b164"
          /\ UNCHANGED last
       \/ /\ p_pc' = "idle"
          /\ last' = [last EXCEPT !.raised = TRUE]
          /\ UNCHANGED p_cache
    /\ UNCHANGED <<cache_file, memo, g_pc, g_value, g_result, n_calls>>
    /\ RaceFrame

\* Line 164: json.dump(game_paths, cache_file), and the file is closed.
build_164 ==
    /\ p_pc = "b164"
    /\ cache_file' = JsonFile(p_cache)
    /\ p_pc' = "b166"
    /\ UNCHANGED <<memo, last, p_cache, g_pc, g_value, g_result, n_calls>>
    /\ RaceFrame

\* Lines 166, 181 and 193: get_path_cache.cache_clear()
cache_clear ==
    /\ p_pc \in {"b166", "a181", "r193"}
    /\ memo' = <<>>
    /\ p_pc' = "idle"
    /\ p_cache' = <<>>
    /\ UNCHANGED <<cache_file, last, g_pc, g_value, g_result, n_calls>>
    /\ RaceFrame

\* add_to_path_cache(game) is called: lines 172-176.
add_173(id, path) ==
    /\ p_pc = "idle"
    /\ StartCall
    /\ last' = Call("add", id, path, FALSE, FALSE, <<>>)
    /\ p_pc' = IF path = NoPath THEN "idle" ELSE "a177"
    /\ UNCHANGED <<cache_file, memo, p_cache, g_pc, g_value, g_result>>
    /\ RaceFrame

\* Lines 177-178: current_cache = read_path_cache(), then the assignment.
add_177 ==
    /\ p_pc = "a177"
    /\ IF read_path_cache(cache_file).raised
       THEN /\ p_pc' = "idle"
            /\ last' = [last EXCEPT !.raised = TRUE]
            /\ UNCHANGED p_cache
       ELSE /\ p_cache' = DictSet(read_path_cache(cache_file).value, last.id, last.path)
            /\ p_pc' = "a179"
            /\ UNCHANGED last
    /\ UNCHANGED <<cache_file, memo, g_pc, g_value, g_result, n_calls>>
    /\ RaceFrame

\* remove_from_path_cache(game) is called: lines 185-190.
remove_186(id) ==
    /\ p_pc = "idle"
    /\ StartCall
    /\ IF read_path_cache(cache_file).raised
       THEN /\ last' = Call("remove", id, NoPath, FALSE, TRUE, <<>>)
            /\ UNCHANGED <<p_pc, p_cache>>
       ELSE IF id \notin DictKeys(read_path_cache(cache_file).value)
       THEN /\ last' = Call("remove", id, NoPath, FALSE, FALSE, <<>>)
            /\ UNCHANGED <<p_pc, p_cache>>
       ELSE /\ last' = Call("remove", id, NoPath, FALSE, FALSE, <<>>)
            /\ p_cache' = DictDel(read_path_cache(cache_file).value, id)
            /\ p_pc' = "r191"
    /\ UNCHANGED <<cache_file, memo, g_pc, g_value, g_result>>
    /\ RaceFrame

\* Lines 179 and 191: open(..., "w") truncates the file.
rewrite_open ==
    /\ p_pc \in {"a179", "r191"}
    /\ cache_file' = TruncatedFile
    /\ p_pc' = IF p_pc = "a179" THEN "a180" ELSE "r192"
    /\ UNCHANGED <<memo, last, p_cache, g_pc, g_value, g_result, n_calls>>
    /\ RaceFrame

\* Lines 180 and 192: json.dump(current_cache, cache_file)
rewrite_dump ==
    /\ p_pc \in {"a180", "r192"}
    /\ cache_file' = JsonFile(p_cache)
    /\ p_pc' = IF p_pc = "a180" THEN "a181" ELSE "r193"
    /\ UNCHANGED <<memo, last, p_cache, g_pc, g_value, g_result, n_calls>>
    /\ RaceFrame

\* The second thread calls read_path_cache() ...
read_path_cache_call ==
    /\ g_pc = "idle"
    /\ StartCall
    /\ g_pc' = "r205"
    /\ UNCHANGED <<cache_file, memo, last, p_pc, p_cache, g_value, g_result>>
    /\ RaceFrame

\* ... or get_path_cache(): cache_single returns the value it keeps, or
\* calls the function (line 200).
get_path_cache_call ==
    /\ g_pc = "idle"
    /\ StartCall
    /\ g_pc' = IF memo # <<>> THEN "idle" ELSE "g200"
    /\ UNCHANGED <<cache_file, memo, last, p_pc, p_cache, g_value, g_result>>
    /\ RaceFrame

\* Lines 205-209: the file is opened and parsed.
read_205 ==
    /\ g_pc \in {"r205", "g200"}
    /\ g_result' = Result(IF g_pc = "r205" THEN "read" ELSE "get",
                          read_path_cache(cache_file))
    /\ IF g_pc = "g200" /\ ~read_path_cache(cache_file).raised
       THEN /\ g_value' = read_path_cache(cache_file).value
            /\ g_pc' = "g_keep"
       ELSE /\ g_pc' = "idle"
            /\ UNCHANGED g_value
    /\ UNCHANGED <<cache_file, memo, last, p_pc, p_cache, n_calls>>
    /\ RaceFrame

\* cache_single keeps what the function returned.
get_path_cache_keep ==
    /\ g_pc = "g_keep"
    /\ memo' = <<g_value>>
    /\ g_value' = <<>>
    /\ g_pc' = "idle"
    /\ UNCHANGED <<cache_file, last, p_pc, p_cache, g_result, n_calls>>
    /\ RaceFrame

InitRace ==
    /\ InitTracker
    /\ InitHistory
    /\ InitExt
    /\ fs = {}
    /\ cache_file \in {AbsentFile, CorruptFile} \cup {JsonFile(d) : d \in CacheDicts}
    /\ observer_raises = FALSE

NextRace ==
    \/ \E recreate \in BOOLEAN : build_159(recreate)
    \/ build_162
    \/ build_163
    \/ build_164
    \/ \E id \in CallerIds, path \in CachePaths \cup {NoPath} : add_173(id, path)
    \/ add_177
    \/ \E id \in CallerIds : remove_186(id)
    \/ rewrite_open
    \/ rewrite_dump
    \/ cache_clear
    \/ read_path_cache_call
    \/ get_path_cache_call
    \/ read_205
    \/ get_path_cache_keep

SpecRace == InitRace /\ [][NextRace]_vars

(***************************************************************************)
(* Scans of a directory                                                    *)
(***************************************************************************)
ScanFrame ==
    UNCHANGED <<trackerVars, ctlVars, workerVars, envVars, obsVars, histVars,
                raceVars, pathVars>>

\* scan_directory(dirname), lines 86-112. install_game saves a game whose
\* directory is the folder (lines 80-83), unless it raised.
scan_directory ==
    /\ n_scans < MaxScans
    /\ n_scans' = n_scans + 1
    /\ scan_out' = ScanOf(root_dir, api_games, used_directories, deps_missing)
    /\ used_directories' = used_directories \cup scan_out'.saved
    /\ install_log' = install_log \o scan_out'.installs
    /\ UNCHANGED <<root_dir, api_games, deps_missing>>
    /\ ScanFrame

\* The directories scanned: their folders, with or without the file the
\* installers name.
ScanDirs ==
    { [folders |-> fo, files |-> fi] :
        fo \in {<<>>, <<"A">>, <<"A", "B">>},
        fi \in SUBSET {<<Join("A"), Exe>>, <<Join("B"), Exe>>} }

\* The entries of a catalog response: a slug, alias slugs, and the
\* installers get_game_installers answers for the slug.
ApiGames ==
    { [slug |-> sl, aliases |-> al,
       installers |-> IF has THEN <<[game_slug |-> sl, exe |-> Exe]>> ELSE <<>>] :
        sl \in Slugs, al \in {<<>>, <<"a">>}, has \in BOOLEAN }

Catalogs == UNION {[1..n -> ApiGames] : n \in 0..MaxCatalog}

InitScan ==
    /\ InitTracker
    /\ InitHistory
    /\ InitRaceVars
    /\ InitPathVars
    /\ fs = {}
    /\ cache_file = AbsentFile
    /\ observer_raises = FALSE
    /\ root_dir \in ScanDirs
    /\ \A f \in root_dir.files :
           \E i \in 1..Len(root_dir.folders) : f[1] = Join(root_dir.folders[i])
    /\ api_games \in Catalogs
    /\ deps_missing \in SUBSET {"a", "c"}
    /\ used_directories \in SUBSET {Join("A")}
    /\ scan_out = NoScan
    /\ install_log = <<>>
    /\ n_scans = 0

NextScan == scan_directory

SpecScan == InitScan /\ [][NextScan]_vars

(***************************************************************************)
(* The derivation of a path, on its own                                    *)
(***************************************************************************)
PathFrame ==
    UNCHANGED <<trackerVars, ctlVars, workerVars, envVars, obsVars, histVars,
                raceVars, scanVars>>

\* path = get_path_from_config(game), as lines 150 and 173 call it.
get_path_from_config_call ==
    /\ ~path_out.called
    /\ LET r == get_path_from_config(game)
       IN  path_out' = [called |-> TRUE, raised |-> r.raised, value |-> r.value]
    /\ UNCHANGED game
    /\ PathFrame

\* The values a key of game_config is given when it is there: "", "a",
\* "/a", and for some keys "a.a" or "~/a"; 'files' is a list of such.
PlainValues == {EmptyStr, <<"a">>, <<"/", "a">>}
ExeValues == PlainValues \cup {<<"~", "/", "a">>}
MainFileValues == PlainValues \cup {<<"a", ".", "a">>}
FilesValues == {<<>>, <<EmptyStr>>, <<<<"a">>>>, <<<<"/", "a">>, <<"a">>>>}

GameConfigs ==
    UNION {{[k \in D |-> CASE k = "exe" -> e
                           [] k = "main_file" -> m
                           [] k = "iso" -> i
                           [] k = "rom" -> EmptyStr
                           [] k = "disk-a" -> <<"a">>
                           [] k = "path" -> p
                           [] k = "files" -> f] :
               e \in ExeValues, m \in MainFileValues, i \in PlainValues,
               p \in PlainValues, f \in FilesValues} : D \in SUBSET Keys}

Games ==
    {NoGame} \cup
    {[has_config |-> TRUE, runner_name |-> rn, directory |-> GameDirectory,
      game_config |-> c] : rn \in {"mame", "linux"}, c \in GameConfigs}

InitPath ==
    /\ InitTracker
    /\ InitHistory
    /\ InitRaceVars
    /\ InitScanVars
    /\ fs = {}
    /\ cache_file = AbsentFile
    /\ observer_raises = FALSE
    /\ game \in Games
    /\ path_out = NoDerivation

NextPath == get_path_from_config_call

SpecPath == InitPath /\ [][NextPath]_vars

(***************************************************************************)
(* Claims                                                                  *)
(***************************************************************************)
\* C1: single-flight. At most one worker thread is scheduled or running at
\* any time, a worker counting as running until _fetch has returned (its
\* final notification included); a request made while one is active starts
\* no second one.
C1_SingleFlight == Cardinality(Active) <= 1

\* C2, both directions: the sentinel self._check_game_ids is not None
\* exactly when a worker is scheduled or running. Stated where the control context is between two
\* requests (inside update_missing the sentinel is set a few steps before
\* the thread is started): there, no worker means the sentinel is None, so
\* the next request starts one, and a worker means the sentinel is set.
C2_Sentinel == AtRest => (check_game_ids # "None" <=> Active # {})

\* C2, the direction the claim singles out: the sentinel is never left set
\* with no worker to clear it.
C2_NoOrphanSentinel == (AtRest /\ Active = {}) => check_game_ids = "None"

\* C3: every id passed to update_missing is looked up by the worker before
\* the tracker is idle again: none is dropped between the worker's copy of
\* the pending set and its clear(), or between the worker's last test of the
\* queues and its reset of the sentinel.
C3_EveryIdVerified == Idle => owed = {}

\* The path the cache file holds for an id (NoPath when it holds none).
CachedPath(id) == DictGet(read_path_cache(cache_file).value, id)

\* C4: when a pass started by update_missing(ids) from idle has completed,
\* with the disk and the path cache unchanged, every id of ids that has a
\* cached path is in missing_game_ids exactly when its path does not exist,
\* and (no other request having arrived) every other id is in
\* missing_game_ids exactly when it was before the pass.
C4_PassResult ==
    (pass_state = "done" /\ ~pass_rescan /\ ~pass_fs) =>
        /\ \A id \in pass_ids : CachedPath(id) # NoPath =>
               (id \in missing_game_ids <=> CachedPath(id) \notin fs)
        /\ ~pass_arrivals =>
               \A id \in GameIds \ pass_ids :
                   id \in missing_game_ids <=> id \in pass_missing
C4_Witness ==
    /\ pass_state = "done" /\ ~pass_rescan /\ ~pass_fs /\ ~pass_arrivals
    /\ pass_ids = {Str(1)}
    /\ pass_missing = {Str(1)}
    /\ missing_game_ids = {}

\* C5 (first part): 'updated' is fired only when an id was added to or
\* removed from missing_game_ids since the last fire.
C5_FireOnlyWhenDirty ==
    [][\A w \in WorkerIds : (Fires(w) /\ w_pc'[w] # "n283") => dirty]_vars

\* C5 (second part): 'updated' is fired only at a stall boundary (the work
\* queue is empty) or in the finally clause of _fetch.
C5_FireAtBoundary ==
    \A w \in WorkerIds : w_pc[w] \in {"n281", "n282", "n283"} =>
        (w_final[w] \/ check_game_queue = <<>>)

\* C5 (third part): a pass with no arrivals fires exactly once if it changed
\* missing_game_ids and not at all if it did not.
C5_OncePerPass ==
    (pass_state = "done" /\ ~pass_arrivals) =>
        pass_fires = IF missing_game_ids # pass_missing THEN 1 ELSE 0

\* C6: after update_all_missing() the worker loads every key of the path
\* cache and looks each one up, and the request is never left with no worker
\* to serve it: with the control context at rest and no worker,
\* self._check_all_games is False and no loaded id is left unchecked.
C6_FullRescanServed ==
    (AtRest /\ Active = {}) => (~check_all_games /\ scan_owed = {})

\* C7: when a step inside the worker loop raises (the cache cannot be read,
\* os.path.exists raises, an observer raises at a stall boundary), the
\* sentinel is reset to None and the next request starts a worker: once the
\* worker of a failed pass has returned and the control context is at rest
\* with no worker left, self._check_game_ids is None.
C7_ResetAfterFailure ==
    (pass_failed /\ pass_state = "done" /\ AtRest /\ Active = {}) =>
        check_game_ids = "None"

\* C7, what the try/except/finally of _fetch does on its own: a raise inside
\* the try block takes the worker to the finally clause without leaving
\* _fetch; with no request arriving during the failed pass the sentinel is
\* None when the worker has returned, and once no worker is left every
\* change of missing_game_ids has been followed by a fire.
C7_Contained ==
    /\ [][\A w \in WorkerIds :
            (Raises(w) /\ ~w_final[w] /\ w_pc'[w] # w_pc[w]) =>
                (w_pc'[w] = "f275" /\ uncaught' = uncaught)]_vars
    /\ []((pass_failed /\ pass_state = "done" /\ ~pass_arrivals) =>
              check_game_ids = "None")
    /\ []((pass_failed /\ Active = {}) => ~dirty)

\* The key under which json.dump stores the id of the last call.
LastKey == JsonKey(last.id)
\* What read_path_cache() returns now.
ReadNow == read_path_cache(cache_file)

\* C8: read_path_cache() returns {} without raising when the file is absent
\* or is not valid JSON, and so add_to_path_cache and remove_from_path_cache
\* on such a file do not raise either.
C8_ReadTolerant ==
    (last.op \in {"read", "add", "remove"} /\
     last.pre_file.kind \in {"absent", "corrupt"}) =>
        /\ ~last.raised
        /\ last.op = "read" => last.result = <<>>

\* C9: after add_to_path_cache(game) with a derivable path, read_path_cache()
\* holds the path under the game's id; after remove_from_path_cache(game),
\* read_path_cache() does not hold the game's id, the id being compared in
\* the form json.dump stores it.
C9_RoundTrip ==
    /\ (last.op = "add" /\ last.path # NoPath) =>
           /\ ~last.raised
           /\ ~ReadNow.raised
           /\ DictGet(ReadNow.value, LastKey) = last.path
    /\ last.op = "remove" =>
           /\ ~last.raised
           /\ ~ReadNow.raised
           /\ LastKey \notin DictKeys(ReadNow.value)

\* C10: build_path_cache(recreate=False) on an existing cache file changes
\* neither the file nor the memoized snapshot of get_path_cache, so a second
\* call in a row leaves what the first one produced.
C10_RebuildNoOp ==
    (last.op = "build" /\ ~last.recreate /\ last.pre_file.kind # "absent") =>
        (cache_file = last.pre_file /\ memo = last.pre_memo)
\* The call was made on a file a rebuild would have rewritten, with a
\* snapshot it would have dropped.
C10_Witness ==
    /\ last.op = "build" /\ ~last.recreate
    /\ last.pre_file.kind # "absent"
    /\ last.pre_file # JsonFile(get_game_paths)
    /\ last.pre_memo # <<>>

\* The mapping build_path_cache writes, as a reader parses it.
RebuiltMapping == JsonLoad(JsonDump(get_game_paths))

\* The file holds a mapping that is not empty.
HoldsMapping(file) == file.kind = "json" /\ file.pairs # <<>>

\* C11: build_path_cache overwrites the cache file atomically. A thread that
\* reads the file while a rebuild of a file that holds a mapping is in
\* progress gets the
\* whole mapping the file held before or the whole mapping the rebuild
\* writes, and a rebuild that failed in get_game_paths leaves the file as it
\* was.
C11_AtomicRebuild ==
    /\ (g_result.op # "none" /\ g_result.writing /\ g_result.call.op = "build" /\
        HoldsMapping(g_result.call.pre_file)) =>
           /\ ~g_result.raised
           /\ g_result.value \in {JsonLoad(g_result.call.pre_file.pairs), RebuiltMapping}
    /\ (last.op = "build" /\ last.raised /\ p_pc = "idle" /\
        HoldsMapping(last.pre_file)) =>
           cache_file = last.pre_file

\* C12: after build_path_cache, add_to_path_cache or remove_from_path_cache
\* has completed, get_path_cache() returns what the file holds: with no call
\* in progress on either thread, a value kept by cache_single equals the
\* content of the file, also when the lazy load of one thread overlapped a
\* write of the other.
C12_SnapshotCoherent ==
    (p_pc = "idle" /\ g_pc = "idle" /\ memo # <<>> /\ cache_file.kind = "json") =>
        memo[1] = JsonLoad(cache_file.pairs)

\* The <<key, value>> entries of a dict.
DictItems(d) == {d[i] : i \in 1..Len(d)}

\* C13: when scan_directory returns, the key sets of installed_map and
\* missing_map are disjoint, the two maps together hold exactly the entries
\* of the slug-to-folder map of the directory, and a key is in installed_map
\* exactly when its slug was added to slugs_installed.
C13_ScanPartition ==
    scan_out.returned =>
        /\ DictKeys(scan_out.installed_map) \cap DictKeys(scan_out.missing_map) = {}
        /\ DictItems(scan_out.installed_map) \cup DictItems(scan_out.missing_map)
               = DictItems(get_game_slugs_and_folders(root_dir))
        /\ DictKeys(scan_out.installed_map)
               = DictKeys(get_game_slugs_and_folders(root_dir)) \cap scan_out.slugs_installed
\* A scan returned with a folder on each side.
C13_Witness ==
    /\ scan_out.returned
    /\ scan_out.installed_map # <<>>
    /\ scan_out.missing_map # <<>>

\* The members of a sequence.
Range(q) == {q[i] : i \in 1..Len(q)}
\* The folders, as paths below dirname, a map returned by the scan names.
FoldersOf(map) == {Join(e[2]) : e \in DictItems(map)}

\* C14: when install_game raises MissingGameDependencyError for an entry,
\* the scan goes on and returns, the entry's slug is not marked installed,
\* its folder is in missing_map, and download_lutris_media is not called
\* for it.
C14_MissingDependency ==
    \A f \in scan_out.failed :
        /\ scan_out.returned
        /\ f.slug \notin scan_out.slugs_installed
        /\ f.game_folder \in FoldersOf(scan_out.missing_map)
        /\ f.game_slug \notin Range(scan_out.downloads)

\* C15: install_game is never called for a folder that is in directories,
\* and, every install recording its folder as a used directory, over all the
\* scans of the directory it is called at most once per folder.
C15_NoDuplicateInstalls ==
    /\ \A i \in 1..Len(scan_out.installs) :
           scan_out.installs[i] \notin scan_out.directories
    /\ deps_missing = {} =>
           \A i, j \in 1..Len(install_log) :
               install_log[i] = install_log[j] => i = j

\* C19: every folder for which the scan called install_game, or which it
\* found among the used directories, is a folder of installed_map and not a
\* folder of missing_map, whichever slug of the entry matched it.
C19_InstalledFoldersReported ==
    scan_out.returned =>
        \A f \in Range(scan_out.installs) \cup scan_out.used :
            /\ f \in FoldersOf(scan_out.installed_map)
            /\ f \notin FoldersOf(scan_out.missing_map)

\* C20: every scan returns its two maps, and neither an installer lookup
\* nor an install is made against the folder of an entry that
\* find_game_folder did not resolve.
C20_UnresolvedSkipped ==
    n_scans > 0 =>
        /\ scan_out.returned
        /\ NoFolder \notin Range(scan_out.lookups)
        /\ NoFolder \notin Range(scan_out.installs)

\* The first conjunct of C20 alone: every scan returns.
C20_ScanReturns == n_scans > 0 => scan_out.returned

\* C16: when the worker has looked up an id and the path cache gave it no
\* path, the step of lines 263-270 leaves the id in missing_game_ids, and
\* the tracker is dirty when the id was not there before.
C16_UndefinedPathMissing ==
    [][\A w \in WorkerIds :
          (w_pc[w] = "f263" /\ w_pc'[w] # "f263" /\ w_path[w] = NoPath) =>
              /\ w_game_id[w] \in missing_game_ids'
              /\ w_game_id[w] \notin missing_game_ids => w_pc'[w] = "f267"]_vars

\* A step of the control context (update_missing, update_all_missing and the
\* lines of update_missing), and a step of a running worker.
ControlMoves == c_pc' # c_pc
WorkerMoves == \E w \in WorkerIds : w_pc[w] # "none" /\ w_pc'[w] # w_pc[w]

\* C17: a step of the control context leaves missing_game_ids,
\* _check_game_queue and _changed as they are, and every step that changes
\* missing_game_ids or _changed is a step of a worker.
C17_SingleWriter ==
    [][/\ ControlMoves =>
            UNCHANGED <<missing_game_ids, check_game_queue, changed>>
       /\ (missing_game_ids' # missing_game_ids \/ changed' # changed) =>
            WorkerMoves]_vars

\* A request is being executed while the worker's queue, the set of
\* missing ids and the dirty flag all hold something to preserve.
C17_Witness ==
    /\ c_pc \in {"u240", "u241", "u244", "u244s", "u246"}
    /\ check_game_queue # <<>>
    /\ missing_game_ids # {}
    /\ changed

\* The value key k offers: the value itself, or the first element of the
\* 'files' list; nothing when the key is absent or the list empty.
Candidate(g, k) ==
    IF k \notin DOMAIN g.game_config THEN EmptyStr
    ELSE IF k = "files"
    THEN (IF g.game_config[k] = <<>> THEN EmptyStr ELSE g.game_config[k][1])
    ELSE g.game_config[k]
Yielding(g) == {i \in 1..Len(KeyOrder) : Candidate(g, KeyOrder[i]) # EmptyStr}
FirstYielding(g) == CHOOSE i \in Yielding(g) : \A j \in Yielding(g) : i <= j
\* The path the rule gives for game g.
DerivedPath(g) ==
    IF ~g.has_config \/ MameSkip(g) \/ Yielding(g) = {} THEN EmptyStr
    ELSE LET v == Candidate(g, KeyOrder[FirstYielding(g)])
         IN  IF startswith(v, "/") THEN v ELSE join(g.directory, v)

\* C18: get_path_from_config raises for no game, and returns the first
\* present, non-empty value in the order of the keys ('files' by its first
\* element), joined to game.directory unless absolute, or "" when no key
\* yields one or the MAME skip applies.
C18_PathDerivation ==
    path_out.called =>
        /\ ~path_out.raised
        /\ path_out.value = DerivedPath(game)

\* The part of C18 about errors alone: no configuration makes
\* get_path_from_config raise.
C18_NoError == path_out.called => ~path_out.raised

\* C18 for the games whose 'files' list, when reached, is not empty, with
\* the user's home expanded in the value before it is tested for absolute.
C18_DerivationElsewhere ==
    (path_out.called /\ ~path_out.raised) =>
        \/ path_out.value = DerivedPath(game)
        \/ /\ Yielding(game) # {}
           /\ path_out.value =
                expanduser(Candidate(game, KeyOrder[FirstYielding(game)]))

(***************************************************************************)
(* The tracker under fair scheduling                                       *)
(***************************************************************************)
\* The requests the control context makes in a run checked for quiescence.
MaxLiveRequests == 2

\* The control context makes finitely many requests and the disk stays as
\* it is; a call of update_missing that was entered runs to its end, and a
\* worker thread that can take a step eventually takes it.
NextLive ==
    \/ n_requests < MaxLiveRequests /\ update_all_missing
    \/ \E ids \in SUBSET GameIds :
           n_requests < MaxLiveRequests /\ update_missing(ids)
    \/ ControlStep
    \/ \E w \in WorkerIds : Worker(w)

Fairness ==
    /\ WF_vars(ControlStep)
    /\ \A w \in WorkerIds : WF_vars(Worker(w))

SpecLive == Init /\ [][NextLive]_vars /\ Fairness

\* The tracker is idle with nothing left to do and nothing left to tell.
Quiescent ==
    /\ Idle
    /\ check_game_queue = <<>>
    /\ set_obj = {}
    /\ ~check_all_games
    /\ ~changed
    /\ ~dirty

\* C21: with finitely many requests and fair scheduling the tracker
\* eventually is, and stays, idle: sentinel None, no worker, both queues
\* empty, no rescan pending, and every change of missing_game_ids notified.
C21_Quiesces == <>[]Quiescent

\* The sentinel names a set while no worker runs and no call of
\* update_missing holds start_fetch = True.
Wedged ==
    /\ Active = {}
    /\ check_game_ids = "set"
    /\ c_pc \in {"idle", "u238"} \/ ~c_start_fetch

\* The end of the behaviour that refutes C21 is final in the code as well:
\* whatever requests follow, a wedged tracker stays wedged.
C21_WedgedForever == [][Wedged => Wedged']_vars
===========================================================================
